---------------------------- MODULE Spec2Model ----------------------------
(***************************************************************************)
(* Model of cos_monitoring/osm/monitor.py: the reference-table lookup      *)
(* (fppos_shift), the flash record generator (pull_flashes) and the drift  *)
(* scan (check_internal_drift).                                            *)
(*                                                                         *)
(* Conventions                                                             *)
(*  - A string that the code searches with `in` / endswith() is a sequence *)
(*    of tokens; `word in s` holds when the word is one of the tokens.     *)
(*  - Pixel values are fixed-point integers with six decimals (Px(1) is    *)
(*    one pixel), so that round(x, 5) is a real operation on them.         *)
(*  - A nullable Python value is <<>> (None) or <<v>>.                     *)
(*  - A call returns [raised |-> "", value |-> v] or, when it raises,      *)
(*    [raised |-> "<ExceptionName>", value |-> 0].                         *)
(***************************************************************************)
EXTENDS Integers, Sequences, FiniteSets, TLC

VARIABLES
    lamptab,     \* the reference table stored under lref
    call,        \* one direct call of fppos_shift: its arguments and outcome
    filename,    \* argument of pull_flashes
    hdu,         \* the opened exposure file: primary header and table rows
    spt,         \* the companion support file of a rawacq exposure (nullable)
    pc,          \* position of the pull_flashes generator
    i,           \* 0-based index of the next table row of the lampflash loop
    out_info,    \* the one dictionary the generator builds and yields
    emitted,     \* what the consumer received at each yield, in order
    walk_i,      \* check_internal_drift: index in the walk of the current root
    in_files,    \* whether the loop over the files of the current root runs
    met,         \* the file names of the current root already iterated
    checked,     \* the list `checked`
    data,        \* the list `data` of summary rows
    opened,      \* every fits.open() of the scan: directory, name, content
    scan_pc,     \* "walk", then "done" once drift.txt is written
    drift_txt,   \* the lines of MONITOR_DIR/drift.txt
    drift_old,   \* the lines drift.txt held when the scan started
    shift_table, \* the rows of MONITOR_DIR/all_shifts.fits
    diff_pc,     \* fp_diff: "called", "returned" or "raised"
    diff_dict,   \* fp_diff: cenwave -> list of (mjd, diff)
    shift_data,  \* fp_diff: the lines of MONITOR_DIR/shift_data.txt
    plotted,     \* make_plots: the (grating, cenwave) pairs already looped over
    series       \* make_plots: (grating, cenwave) -> (new_xdata, new_ydata)

flashVars  == <<filename, hdu, spt, pc, i, out_info, emitted>>
scanVars   == <<walk_i, in_files, met, checked, data, opened, scan_pc, drift_txt,
                drift_old>>
aggVars    == <<shift_table, diff_pc, diff_dict, shift_data, plotted, series>>

---------------------------------------------------------------------------
(* Values *)

None == <<>>
Some(v) == <<v>>

Px(n) == n * 1000000

Return(v) == [raised |-> "", value |-> v]
Raise(e)  == [raised |-> e, value |-> 0]

\* `word in s` for a tokenised string s
In(word, s) == \E k \in 1..Len(s) : s[k] = word

---------------------------------------------------------------------------
(* Reference tables *)

KeyNames     == {"SEGMENT", "OPT_ELEM", "CENWAVE", "FP_PIXEL_SHIFT"}
OffsetNames  == KeyNames \cup {"FPOFFSET"}

LampRow(seg, oe, cw, fpo, shift) ==
    [segment |-> seg, opt_elem |-> oe, cenwave |-> cw, fpoffset |-> fpo,
     FP_PIXEL_SHIFT |-> shift]

OldRow(seg, oe, cw, shift) ==
    [segment |-> seg, opt_elem |-> oe, cenwave |-> cw, FP_PIXEL_SHIFT |-> shift]

LampTabs ==
    { [names |-> KeyNames, rows |-> <<>>],
      [names |-> KeyNames,
       rows  |-> << OldRow("FUVA", "G130M", 1309, 1234500),
                    OldRow("FUVB", "G130M", 1309, 77) >>],
      [names |-> OffsetNames, rows |-> <<>>],
      [names |-> OffsetNames,
       rows  |-> << LampRow("FUVA", "G130M", 1309, 0, 1234500),
                    LampRow("FUVB", "G130M", 1309, 0, -400004),
                    LampRow("FUVA", "G130M", 1309, 1, 7) >>],
      [names |-> OffsetNames,
       rows  |-> << LampRow("FUVB", "G160M", 1309, 0, 55),
                    LampRow("FUVA", "G130M", 1309, 0, 1234500),
                    LampRow("FUVA", "G130M", 1309, 0, 999),
                    LampRow("FUVB", "G130M", 1309, 0, 0),
                    LampRow("FUVB", "G130M", 1309, 1, 250000) >>] }

Segments   == {"FUVA", "FUVB"}
OptElems   == {"G130M", "G160M"}
Cenwaves   == {1309, 1600}
FpOffsets  == {-2, -1, 0, 1}

---------------------------------------------------------------------------
(* fppos_shift *)

\* np.where(...)[0]: the indices of the rows equal to the key on all four columns
MatchIndex(tab, segment, opt_elem, cenwave, fpoffset) ==
    SelectSeq([k \in 1..Len(tab.rows) |-> k],
              LAMBDA k : /\ tab.rows[k].segment = segment
                         /\ tab.rows[k].opt_elem = opt_elem
                         /\ tab.rows[k].cenwave = cenwave
                         /\ tab.rows[k].fpoffset = fpoffset)

\* a lookup that keys on the three columns an old table has instead of returning 0
fppos_shift_keyed_without_column(tab, segment, opt_elem, cenwave, fpoffset) ==
    LET index == SelectSeq([k \in 1..Len(tab.rows) |-> k],
                           LAMBDA k : /\ tab.rows[k].segment = segment
                                      /\ tab.rows[k].opt_elem = opt_elem
                                      /\ tab.rows[k].cenwave = cenwave
                                      /\ ("FPOFFSET" \in tab.names
                                            => tab.rows[k].fpoffset = fpoffset))
    IN  IF index = <<>> THEN Raise("IndexError")
        ELSE Return(tab.rows[index[1]].FP_PIXEL_SHIFT)

fppos_shift(tab, segment, opt_elem, cenwave, fpoffset) ==
    IF "FPOFFSET" \notin tab.names
    THEN Return(0)
    ELSE LET index == MatchIndex(tab, segment, opt_elem, cenwave, fpoffset)
         IN  IF index = <<>>
             THEN Raise("IndexError")      \* FP_PIXEL_SHIFT[index][0] of an empty selection
             ELSE Return(tab.rows[index[1]].FP_PIXEL_SHIFT)

NoCall == [pc |-> "idle", segment |-> "FUVA", opt_elem |-> "G130M",
           cenwave |-> 1309, fpoffset |-> 0, ret |-> Return(0)]

InitLookup ==
    /\ lamptab \in LampTabs
    /\ \E s \in Segments, oe \in OptElems, cw \in Cenwaves, fpo \in FpOffsets :
          call = [pc |-> "called", segment |-> s, opt_elem |-> oe,
                  cenwave |-> cw, fpoffset |-> fpo, ret |-> Return(0)]

CallResult ==
    fppos_shift(lamptab, call.segment, call.opt_elem, call.cenwave, call.fpoffset)

FpposShiftReturns ==
    /\ call.pc = "called"
    /\ CallResult.raised = ""
    /\ call' = [call EXCEPT !.pc = "returned", !.ret = CallResult]
    /\ UNCHANGED <<lamptab, flashVars, scanVars, aggVars>>

FpposShiftRaises ==
    /\ call.pc = "called"
    /\ CallResult.raised # ""
    /\ call' = [call EXCEPT !.pc = "raised", !.ret = CallResult]
    /\ UNCHANGED <<lamptab, flashVars, scanVars, aggVars>>

---------------------------------------------------------------------------
(* pull_flashes *)

MaxRows == 3

FlashRows ==
    { [segment |-> "FUVA", SHIFT_DISP |-> 10000000, SHIFT_XDISP |-> 500004,
       SPEC_FOUND |-> TRUE],
      [segment |-> "FUVB", SHIFT_DISP |-> -1234567, SHIFT_XDISP |-> -300005,
       SPEC_FOUND |-> FALSE],
      [segment |-> "FUVB", SHIFT_DISP |-> 2000001, SHIFT_XDISP |-> 100000,
       SPEC_FOUND |-> TRUE] }

FlashTables == UNION { [1..n -> FlashRows] : n \in 0..MaxRows }

FileNames ==
    { <<"lb9z01abq", "_lampflash.fits">>,
      <<"lb9z01abq", "_lampflash.fits", ".gz">>,
      <<"lb9z01abq", "_rawacq.fits.gz">>,
      <<"lb9z01abq", "_corrtag_a.fits">> }

SptHeaders ==
    [LQTAYCOR : {Px(500), 0, -Px(3)}, LQTAXCOR : {Px(300), 0, -Px(5)}]

IsLampflash == In("_lampflash.fits", filename)
IsRawacq    == ~IsLampflash /\ In("_rawacq.fits.gz", filename)

\* dictionary assignment d[k] = v
SetItem(d, k, v) == (k :> v) @@ d

\* Python 2 round(x, 5) on a six-decimal fixed-point value: to the nearest
\* multiple of 10, halves away from zero
Round5(x) ==
    IF x >= 0 THEN ((x + 5) \div 10) * 10
              ELSE -((((-x) + 5) \div 10) * 10)

\* the header values copied into out_info when the file is opened (date,
\* proposid, detector and lamptab are copied the same way and never changed)
BaseInfo ==
    [opt_elem |-> hdu.OPT_ELEM, cenwave |-> hdu.CENWAVE, fppos |-> hdu.FPPOS]

CurInfo == IF pc = "start" THEN BaseInfo ELSE out_info

FlashOf(idx) == (idx \div 2) + 1

\* a record whose cross-dispersion shift is corrected like the dispersion shift
LampflashRecord_corrects_y(info, idx, line, offset) ==
    SetItem(SetItem(SetItem(SetItem(info,
        "flash", FlashOf(idx)),
        "x_shift", Some(Round5(line.SHIFT_DISP - offset))),
        "y_shift", Some(Round5(line.SHIFT_XDISP - offset))),
        "found", line.SPEC_FOUND)

\* out_info after the body of the loop for row idx
LampflashRecord(info, idx, line, offset) ==
    SetItem(SetItem(SetItem(SetItem(info,
        "flash", FlashOf(idx)),
        "x_shift", Some(Round5(line.SHIFT_DISP - offset))),
        "y_shift", Some(Round5(line.SHIFT_XDISP))),
        "found", line.SPEC_FOUND)

\* shifts with the two raw axes not exchanged
RawacqShifts_axes_not_swapped(header) ==
    IF ~(header.LQTAYCOR > 0)
    THEN [x_shift |-> None, y_shift |-> None]
    ELSE [x_shift |-> Some(Px(1023) - header.LQTAXCOR),
          y_shift |-> Some(Px(1023) - header.LQTAYCOR)]

\* shifts nulled only when LQTAYCOR is negative
RawacqShifts_zero_accepted(header) ==
    IF ~(header.LQTAYCOR >= 0)
    THEN [x_shift |-> None, y_shift |-> None]
    ELSE [x_shift |-> Some(Px(1023) - header.LQTAYCOR),
          y_shift |-> Some(Px(1023) - header.LQTAXCOR)]

RawacqShifts(header) ==
    IF ~(header.LQTAYCOR > 0)
    THEN [x_shift |-> None, y_shift |-> None]
    ELSE [x_shift |-> Some(Px(1023) - header.LQTAYCOR),
          y_shift |-> Some(Px(1023) - header.LQTAXCOR)]

RawacqRecord(info, header) ==
    SetItem(SetItem(SetItem(SetItem(SetItem(info,
        "found", FALSE),
        "fppos", Some(-1)),
        "flash", 1),
        "x_shift", RawacqShifts(header).x_shift),
        "y_shift", RawacqShifts(header).y_shift)

InitFlash ==
    /\ filename \in FileNames
    /\ IF IsLampflash
       THEN /\ hdu \in [OPT_ELEM : {"G130M"}, CENWAVE : {1309},
                        FPPOS : {None, Some(3), Some(4)}, data : FlashTables]
            /\ lamptab \in LampTabs
            /\ spt = None
       ELSE /\ hdu \in [OPT_ELEM : {"G130M"}, CENWAVE : {1309},
                        FPPOS : {None, Some(3)}, data : {<<>>}]
            /\ lamptab \in {t \in LampTabs : t.rows = <<>>}
            /\ spt \in {None} \cup {Some(h) : h \in SptHeaders}
    /\ pc = "start"
    /\ i = 0
    /\ out_info = <<>>
    /\ emitted = <<>>

\* the generator is at the top of the lampflash loop, fpoffset computed
AtLoop ==
    /\ IsLampflash
    /\ \/ pc = "start" /\ hdu.FPPOS # None
       \/ pc = "suspended"

Line == hdu.data[i + 1]

LineShift ==
    fppos_shift(lamptab, Line.segment, CurInfo.opt_elem, CurInfo.cenwave,
                hdu.FPPOS[1] - 3)

\* first next() on a lampflash file without FPPOS: None - 3
LampflashNoFppos ==
    /\ pc = "start" /\ IsLampflash /\ hdu.FPPOS = None
    /\ pc' = "raised"
    /\ out_info' = BaseInfo
    /\ UNCHANGED <<filename, hdu, spt, i, emitted, lamptab>>
    /\ UNCHANGED <<call, scanVars, aggVars>>

\* next(): one more row, yielded
LampflashYield ==
    /\ AtLoop /\ i < Len(hdu.data)
    /\ LineShift.raised = ""
    /\ out_info' = LampflashRecord(CurInfo, i, Line, LineShift.value)
    /\ emitted' = Append(emitted, out_info')
    /\ i' = i + 1
    /\ pc' = "suspended"
    /\ UNCHANGED <<filename, hdu, spt, lamptab>>
    /\ UNCHANGED <<call, scanVars, aggVars>>

\* next(): the lookup for the row raises; flash was already assigned
LampflashLookupRaises ==
    /\ AtLoop /\ i < Len(hdu.data)
    /\ LineShift.raised # ""
    /\ out_info' = SetItem(CurInfo, "flash", FlashOf(i))
    /\ pc' = "raised"
    /\ UNCHANGED <<filename, hdu, spt, i, emitted, lamptab>>
    /\ UNCHANGED <<call, scanVars, aggVars>>

\* next(): no row left
LampflashStop ==
    /\ AtLoop /\ i = Len(hdu.data)
    /\ out_info' = CurInfo
    /\ pc' = "done"
    /\ UNCHANGED <<filename, hdu, spt, i, emitted, lamptab>>
    /\ UNCHANGED <<call, scanVars, aggVars>>

\* first next() on a rawacq file
RawacqYield ==
    /\ pc = "start" /\ IsRawacq /\ spt # None
    /\ out_info' = RawacqRecord(BaseInfo, spt[1])
    /\ emitted' = Append(emitted, out_info')
    /\ pc' = "suspended"
    /\ UNCHANGED <<filename, hdu, spt, i, lamptab>>
    /\ UNCHANGED <<call, scanVars, aggVars>>

\* first next() on a rawacq file whose companion cannot be opened
RawacqNoSpt ==
    /\ pc = "start" /\ IsRawacq /\ spt = None
    /\ out_info' = SetItem(SetItem(SetItem(BaseInfo,
                       "found", FALSE), "fppos", Some(-1)), "flash", 1)
    /\ pc' = "raised"
    /\ UNCHANGED <<filename, hdu, spt, i, emitted, lamptab>>
    /\ UNCHANGED <<call, scanVars, aggVars>>

\* second next() on a rawacq file
RawacqStop ==
    /\ pc = "suspended" /\ IsRawacq
    /\ pc' = "done"
    /\ UNCHANGED <<filename, hdu, spt, i, out_info, emitted, lamptab>>
    /\ UNCHANGED <<call, scanVars, aggVars>>

\* first next() on a file of neither kind
OtherStop ==
    /\ pc = "start" /\ ~IsLampflash /\ ~IsRawacq
    /\ out_info' = BaseInfo
    /\ pc' = "done"
    /\ UNCHANGED <<filename, hdu, spt, i, emitted, lamptab>>
    /\ UNCHANGED <<call, scanVars, aggVars>>

---------------------------------------------------------------------------
(* check_internal_drift *)

MaxFiles == 2

\* '/smov/cos/Data/'.split('/') without its last element
DataDir == << <<>>, <<"smov">>, <<"cos">>, <<"Data">> >>

\* os.path.join(root, name), kept as root.split('/') would return it
Join(root, name) ==
    IF root[Len(root)] = <<>> THEN [root EXCEPT ![Len(root)] = name]
                              ELSE Append(root, name)

Sub(names) == DataDir \o names

\* the roots os.walk('/smov/cos/Data/') yields, top-down
WalkRoots ==
    << Join(DataDir, <<>>),
       Sub(<< <<"Fasttrack">> >>),
       Sub(<< <<"Fasttrack">>, <<"11111">> >>),
       Sub(<< <<"Fasttrack">>, <<"11111">>, <<"01-01-2012">> >>),
       Sub(<< <<"11111">> >>),
       Sub(<< <<"11111">>, <<"Anomalies">> >>),
       Sub(<< <<"11111">>, <<"Anomalies">>, <<"01-01-2012">> >>),
       Sub(<< <<"11111">>, <<"otfrdata">> >>),
       Sub(<< <<"11111">>, <<"otfrdata">>, <<"01-01-2012">> >>),
       Sub(<< <<"11111">>, <<"otfrdata">>, <<"01-01-2012">>, <<"gzip">> >>),
       Sub(<< <<"11111">>, <<"otfrdata">>, <<"01-01-2012">>, <<"plots">> >>),
       Sub(<< <<"11111">>, <<"visit01">> >>),
       Sub(<< <<"11111">>, <<"visit01">>, <<"Quality">> >>),
       Sub(<< <<"11111">>, <<"visit01">>, <<"my_", "targets">> >>),
       Sub(<< <<"11111">>, <<"visit01">>, <<"podfiles">> >>),
       Sub(<< <<"11111">>, <<"visit01">>, <<"experimental", "_2">> >>),
       Sub(<< <<"11111">>, <<"visit01">>, <<"old_", "Anomalies">> >>),
       Sub(<< <<"11111">>, <<"visit01">>, <<"otfrdata">> >>),
       Sub(<< <<"11111">>, <<"visit01">>, <<"02-02-2012">> >>) >>

\* `word in path` for a path kept as its split('/')
ContainsWord(word, path) == \E c \in 1..Len(path) : In(word, path[c])

\* path.endswith(word)
EndsWith(word, path) ==
    /\ Len(path) > 0
    /\ Len(path[Len(path)]) > 0
    /\ path[Len(path)][Len(path[Len(path)])] = word

\* the directory checks with the anomaly reports left in
Excluded_without_Anomalies(root) ==
    \/ \E w \in {"Quality", "Fasttrack", "targets", "podfiles", "gzip",
                 "experimental"} : ContainsWord(w, root)
    \/ EndsWith("otfrdata", root)
    \/ ~(Len(root) = 7)

\* the directory checks with the otfrdata directory itself left in
Excluded_without_otfrdata(root) ==
    \/ \E w \in {"Quality", "Fasttrack", "targets", "podfiles", "gzip",
                 "experimental", "Anomalies"} : ContainsWord(w, root)
    \/ ~(Len(root) = 7)

\* the `continue`s at the top of the loop over os.walk
Excluded(root) ==
    \/ ContainsWord("Quality", root)
    \/ ContainsWord("Fasttrack", root)
    \/ ContainsWord("targets", root)
    \/ ContainsWord("podfiles", root)
    \/ ContainsWord("gzip", root)
    \/ ContainsWord("experimental", root)
    \/ ContainsWord("Anomalies", root)
    \/ EndsWith("otfrdata", root)
    \/ ~(Len(root) = 7)

ScanNames ==
    { <<"lb9z01abq", "_lampflash.fits">>,
      <<"Anomalies", "_lampflash.fits">>,
      <<"lb9z01abq", "_rawtag_a.fits">> }

XRow(seg, xdisp) == [segment |-> seg, SHIFT_XDISP |-> xdisp]

\* contents of the lampflash files of the corpus
ScanHdus ==
    { [DETECTOR |-> "FUV", exptime |-> 1200, NUMFLASH |-> 2,
       data |-> Some(<< XRow("FUVA", 500000), XRow("FUVA", -300000),
                        XRow("FUVB", 200000), XRow("FUVA", 100000) >>)],
      [DETECTOR |-> "FUV", exptime |-> 300, NUMFLASH |-> 3,
       data |-> Some(<< XRow("FUVB", 400000), XRow("FUVA", -20000),
                        XRow("FUVB", 400000), XRow("FUVA", 70000) >>)],
      [DETECTOR |-> "NUV", exptime |-> 100, NUMFLASH |-> 2,
       data |-> Some(<< XRow("NUVA", 1000000), XRow("NUVA", 3000000) >>)],
      [DETECTOR |-> "FUV", exptime |-> 50, NUMFLASH |-> 2, data |-> None],
      [DETECTOR |-> "FUV", exptime |-> 10, NUMFLASH |-> 1,
       data |-> Some(<< XRow("FUVA", 0), XRow("FUVA", 900000) >>)] }

\* np.where(hdu[1].data['segment'] == segment)[0]
SegIndex(rows, segment) ==
    SelectSeq([k \in 1..Len(rows) |-> k], LAMBDA k : rows[k].segment = segment)

SeqMax(rows, index) ==
    CHOOSE v \in {rows[index[k]].SHIFT_XDISP : k \in 1..Len(index)} :
        \A k \in 1..Len(index) : rows[index[k]].SHIFT_XDISP <= v

SeqMin(rows, index) ==
    CHOOSE v \in {rows[index[k]].SHIFT_XDISP : k \in 1..Len(index)} :
        \A k \in 1..Len(index) : rows[index[k]].SHIFT_XDISP >= v

\* a summary row as soon as the segment has one table row
SegmentRows_single_row(path, h, segment) ==
    LET index == SegIndex(h.data[1], segment)
    IN  IF Len(index) > 0
        THEN << [path |-> path, segment |-> segment,
                 diff |-> SeqMax(h.data[1], index) - SeqMin(h.data[1], index),
                 exptime |-> h.exptime] >>
        ELSE << >>

\* what one turn of the loop over the segments appends to `data`
SegmentRows(path, h, segment) ==
    LET index == SegIndex(h.data[1], segment)
    IN  IF Len(index) > 1
        THEN << [path |-> path, segment |-> segment,
                 diff |-> SeqMax(h.data[1], index) - SeqMin(h.data[1], index),
                 exptime |-> h.exptime] >>
        ELSE << >>

\* '{} {} {} {}\n'.format(line[0], line[1], line[2], line[3]): the four
\* fields of a line of drift.txt
DriftLine(row) == <<row.path, row.segment, row.diff, row.exptime>>

\* the file written by appending to what it held
DriftFile_appended(old, rows) == old \o [k \in 1..Len(rows) |-> DriftLine(rows[k])]

\* drift.txt after open(..., 'w') and the loop over `data`
DriftFile(old, rows) == [k \in 1..Len(rows) |-> DriftLine(rows[k])]

OldLines == { <<>>, << <<Sub(<< <<"old">> >>), "FUVA", 5, 1>> >> }

\* an exposure file that fits.open() or the header reads fail on
CorruptHdu == [DETECTOR |-> "unreadable", exptime |-> 0, NUMFLASH |-> 0,
               data |-> None]

InitScan ==
    /\ walk_i = 0
    /\ in_files = FALSE
    /\ met = {}
    /\ checked = <<>>
    /\ data = <<>>
    /\ opened = <<>>
    /\ scan_pc = "walk"
    /\ drift_txt \in OldLines
    /\ drift_old = drift_txt

Root == WalkRoots[walk_i]

\* os.walk yields a root that one of the checks rejects
WalkSkipDir ==
    /\ scan_pc = "walk" /\ walk_i < Len(WalkRoots)
    /\ Excluded(WalkRoots[walk_i + 1])
    /\ walk_i' = walk_i + 1
    /\ in_files' = FALSE
    /\ met' = {}
    /\ UNCHANGED <<checked, data, opened, scan_pc, drift_txt>>
    /\ UNCHANGED <<lamptab, call, flashVars, drift_old, aggVars>>

\* os.walk yields a root whose files are looped over
WalkEnterDir ==
    /\ scan_pc = "walk" /\ walk_i < Len(WalkRoots)
    /\ ~Excluded(WalkRoots[walk_i + 1])
    /\ walk_i' = walk_i + 1
    /\ in_files' = TRUE
    /\ met' = {}
    /\ UNCHANGED <<checked, data, opened, scan_pc, drift_txt>>
    /\ UNCHANGED <<lamptab, call, flashVars, drift_old, aggVars>>

\* the next file of the current root
NextFile(infile) ==
    /\ scan_pc = "walk" /\ in_files
    /\ Cardinality(met) < MaxFiles
    /\ infile \in ScanNames \ met
    /\ met' = met \cup {infile}

\* `infile in checked`
FileAlreadyChecked ==
    \E infile \in ScanNames :
        /\ NextFile(infile)
        /\ In(infile, checked)
        /\ UNCHANGED <<walk_i, in_files, checked, data, opened, scan_pc, drift_txt>>
        /\ UNCHANGED <<lamptab, call, flashVars, drift_old, aggVars>>

\* not a lampflash name
FileNotLampflash ==
    \E infile \in ScanNames :
        /\ NextFile(infile)
        /\ ~In(infile, checked)
        /\ ~In("_lampflash.fits", infile)
        /\ UNCHANGED <<walk_i, in_files, checked, data, opened, scan_pc, drift_txt>>
        /\ UNCHANGED <<lamptab, call, flashVars, drift_old, aggVars>>

\* the file is opened
OpenFile(infile, h) ==
    /\ NextFile(infile)
    /\ ~In(infile, checked)
    /\ In("_lampflash.fits", infile)
    /\ opened' = Append(opened, [root |-> Root, name |-> infile, hdu |-> h])

\* opened and left by one of the three `continue`s
FileRejected ==
    \E infile \in ScanNames, h \in ScanHdus :
        /\ OpenFile(infile, h)
        /\ \/ h.DETECTOR = "NUV"
           \/ h.data = None
           \/ ~(h.NUMFLASH > 1)
        /\ UNCHANGED <<walk_i, in_files, checked, data, scan_pc, drift_txt>>
        /\ UNCHANGED <<lamptab, call, flashVars, drift_old, aggVars>>

\* fits.open() or a header read raises: the exception leaves the function
FileOpenFails_skipped ==
    \E infile \in ScanNames :
        /\ OpenFile(infile, CorruptHdu)
        /\ UNCHANGED <<walk_i, in_files, checked, data, scan_pc, drift_txt>>
        /\ UNCHANGED <<lamptab, call, flashVars, drift_old, aggVars>>

FileOpenFails ==
    \E infile \in ScanNames :
        /\ OpenFile(infile, CorruptHdu)
        /\ scan_pc' = "raised"
        /\ UNCHANGED <<walk_i, in_files, checked, data, drift_txt>>
        /\ UNCHANGED <<lamptab, call, flashVars, drift_old, aggVars>>

\* opened, its segments summarised, its name appended to `checked`
FileProcessed ==
    \E infile \in ScanNames, h \in ScanHdus :
        /\ OpenFile(infile, h)
        /\ h.DETECTOR # "NUV"
        /\ h.data # None
        /\ h.NUMFLASH > 1
        /\ data' = data \o SegmentRows(Join(Root, infile), h, "FUVA")
                        \o SegmentRows(Join(Root, infile), h, "FUVB")
        /\ checked' = Append(checked, infile)
        /\ UNCHANGED <<walk_i, in_files, scan_pc, drift_txt>>
        /\ UNCHANGED <<lamptab, call, flashVars, drift_old, aggVars>>

\* the walk is over: open(drift.txt, 'w') and one line per row of `data`
WriteDrift ==
    /\ scan_pc = "walk" /\ walk_i = Len(WalkRoots)
    /\ drift_txt' = DriftFile(drift_txt, data)
    /\ scan_pc' = "done"
    /\ in_files' = FALSE
    /\ met' = {}
    /\ UNCHANGED <<walk_i, checked, data, opened>>
    /\ UNCHANGED <<lamptab, call, flashVars, drift_old, aggVars>>

---------------------------------------------------------------------------
(* The aggregated shift table: fp_diff and the per-day series of make_plots *)

MaxRecs == 4

\* a row of all_shifts.fits; mjd is kept in tenths of a day
ShiftRec(det, ds, seg, oe, cw, fp, mjd, x) ==
    [detector |-> det, dataset |-> ds, segment |-> seg, opt_elem |-> oe,
     cenwave |-> cw, fppos |-> fp, mjd |-> mjd, x_shift |-> x]

TablesOver(recs) == UNION { [1..n -> recs] : n \in 0..MaxRecs }

DiffRecs ==
    { ShiftRec("FUV", "lb9z01abq", "FUVA", "G130M", 1309, 3, 550002, Px(5)),
      ShiftRec("FUV", "lb9z01abq", "FUVB", "G130M", 1309, 3, 550002, Px(3)),
      ShiftRec("FUV", "lb9z01abq", "FUVA", "G130M", 1309, 3, 550002, Px(7)),
      ShiftRec("FUV", "lb9z02cdq", "FUVA", "G160M", 1600, 4, 550017, -Px(2)),
      ShiftRec("FUV", "lb9z02cdq", "FUVB", "G160M", 1600, 4, 550017, Px(1)),
      ShiftRec("NUV", "lb9z03efq", "NUVA", "G185M", 1921, 3, 550021, Px(9)) }

InitDiff ==
    /\ shift_table \in TablesOver(DiffRecs)
    /\ diff_pc = "called"
    /\ diff_dict = <<>>
    /\ shift_data \in {<<>>, << <<550000, "G130M", 1309, 3, Px(1), Px(2)>> >>}
    /\ plotted = {}
    /\ series = <<>>

\* fp_diff: `fits = fits.open(...)` makes fits a local name of the function,
\* read before it is bound: UnboundLocalError, before the table is read,
\* diff_dict created or shift_data.txt opened
FpDiffRaises ==
    /\ diff_pc = "called"
    /\ diff_pc' = "raised"
    /\ UNCHANGED <<shift_table, diff_dict, shift_data, plotted, series>>
    /\ UNCHANGED <<lamptab, call, flashVars, scanVars>>

PlotRecs ==
    { ShiftRec("FUV", "lb9z01abq", "FUVA", "G130M", 1309, 3, 550002, 100),
      ShiftRec("FUV", "lb9z01acq", "FUVA", "G130M", 1309, 3, 550007, 400),
      ShiftRec("FUV", "lb9z01adq", "FUVA", "G130M", 1309, 3, 550009, 200),
      ShiftRec("FUV", "lb9z01aeq", "FUVA", "G130M", 1309, 3, 550025, -300),
      ShiftRec("FUV", "lb9z02cdq", "FUVA", "G160M", 1600, 4, 550011, 500),
      ShiftRec("FUV", "lb9z02ceq", "FUVA", "G130M", 1600, 4, 550031, 70) }

InitPlots ==
    /\ shift_table \in TablesOver(PlotRecs)
    /\ diff_pc = "idle"
    /\ diff_dict = <<>>
    /\ shift_data = <<>>
    /\ plotted = {}
    /\ series = <<>>

\* float nan
NaN == <<>>

\* int(mjd)
Day(mjd) == mjd \div 10

\* np.where((data['opt_elem'] == grating) & (data['cenwave'] == cenwave))[0]
BucketIndex(grating, cenwave) ==
    SelectSeq([k \in 1..Len(shift_table) |-> k],
              LAMBDA k : /\ shift_table[k].opt_elem = grating
                         /\ shift_table[k].cenwave = cenwave)

\* the k-th smallest element of a non-empty sequence of numbers
Kth(vals, k) ==
    CHOOSE v \in {vals[n] : n \in 1..Len(vals)} :
        /\ Cardinality({n \in 1..Len(vals) : vals[n] < v}) < k
        /\ Cardinality({n \in 1..Len(vals) : vals[n] <= v}) >= k

\* a median that takes the upper of the two middle values
Median_upper_middle(vals) ==
    IF Len(vals) = 0 THEN NaN
    ELSE Some(Kth(vals, (Len(vals) \div 2) + 1))

\* np.median: the middle value, the mean of the two middle values, nan of nothing
Median(vals) ==
    IF Len(vals) = 0 THEN NaN
    ELSE IF Len(vals) % 2 = 1 THEN Some(Kth(vals, (Len(vals) + 1) \div 2))
    ELSE Some((Kth(vals, Len(vals) \div 2) + Kth(vals, (Len(vals) \div 2) + 1)) \div 2)

SeqLow(xs)  == CHOOSE v \in {xs[n] : n \in 1..Len(xs)} : \A n \in 1..Len(xs) : v <= xs[n]
SeqHigh(xs) == CHOOSE v \in {xs[n] : n \in 1..Len(xs)} : \A n \in 1..Len(xs) : v >= xs[n]

\* new_xdata, new_ydata of a bucket: one point per day of
\* range(xdata.min(), xdata.max() + 1)
DaySeries(index) ==
    LET xdata == [k \in 1..Len(index) |-> Day(shift_table[index[k]].mjd)]
        ydata == [k \in 1..Len(index) |-> shift_table[index[k]].x_shift]
        first == SeqLow(xdata)
        last  == SeqHigh(xdata)
        OfDay(day) == SelectSeq([k \in 1..Len(index) |-> k],
                                LAMBDA k : xdata[k] = day)
    IN  [new_xdata |-> [n \in 1..(last - first + 1) |-> first + n - 1],
         new_ydata |-> [n \in 1..(last - first + 1) |->
                          Median([k \in 1..Len(OfDay(first + n - 1)) |->
                                     ydata[OfDay(first + n - 1)[k]]])]]

Gratings    == {shift_table[k].opt_elem : k \in 1..Len(shift_table)}
AllCenwaves == {shift_table[k].cenwave : k \in 1..Len(shift_table)}

\* one turn of the loop over cenwaves that finds no record: continue
PlotBucketEmpty ==
    \E grating \in Gratings, cenwave \in AllCenwaves :
        /\ <<grating, cenwave>> \notin plotted
        /\ Len(BucketIndex(grating, cenwave)) = 0
        /\ plotted' = plotted \cup {<<grating, cenwave>>}
        /\ UNCHANGED <<shift_table, diff_pc, diff_dict, shift_data, series>>
        /\ UNCHANGED <<lamptab, call, flashVars, scanVars>>

\* one turn of the loop over cenwaves that builds and plots the per-day series
PlotBucketSeries ==
    \E grating \in Gratings, cenwave \in AllCenwaves :
        /\ <<grating, cenwave>> \notin plotted
        /\ Len(BucketIndex(grating, cenwave)) > 0
        /\ plotted' = plotted \cup {<<grating, cenwave>>}
        /\ series' = (<<grating, cenwave>> :> DaySeries(BucketIndex(grating, cenwave)))
                        @@ series
        /\ UNCHANGED <<shift_table, diff_pc, diff_dict, shift_data>>
        /\ UNCHANGED <<lamptab, call, flashVars, scanVars>>

---------------------------------------------------------------------------
(* Specifications *)

vars == <<lamptab, call, flashVars, scanVars, aggVars>>

IdleFlash ==
    /\ filename = <<>> /\ hdu = None /\ spt = None /\ pc = "idle"
    /\ i = 0 /\ out_info = <<>> /\ emitted = <<>>

IdleScan ==
    /\ walk_i = 0 /\ in_files = FALSE /\ met = {} /\ checked = <<>>
    /\ data = <<>> /\ opened = <<>> /\ scan_pc = "idle" /\ drift_txt = <<>>
    /\ drift_old = <<>>

IdleAgg ==
    /\ shift_table = <<>> /\ diff_pc = "idle" /\ diff_dict = <<>>
    /\ shift_data = <<>> /\ plotted = {} /\ series = <<>>

IdleLookup ==
    /\ lamptab = [names |-> KeyNames, rows |-> <<>>]
    /\ call = NoCall

\* one call of fppos_shift on any table and key
NextLookup ==
    \/ FpposShiftReturns
    \/ FpposShiftRaises

LookupInit == InitLookup /\ IdleFlash /\ IdleScan /\ IdleAgg

SpecLookup == LookupInit /\ [][NextLookup]_vars

\* one consumer draining pull_flashes(filename)
Next ==
    \/ LampflashNoFppos
    \/ LampflashYield
    \/ LampflashLookupRaises
    \/ LampflashStop
    \/ RawacqYield
    \/ RawacqNoSpt
    \/ RawacqStop
    \/ OtherStop

Init == InitFlash /\ call = NoCall /\ IdleScan /\ IdleAgg

Spec == Init /\ [][Next]_vars

\* one run of check_internal_drift over the corpus
NextScan ==
    \/ WalkSkipDir
    \/ WalkEnterDir
    \/ FileAlreadyChecked
    \/ FileNotLampflash
    \/ FileRejected
    \/ FileProcessed
    \/ FileOpenFails
    \/ WriteDrift

\* one call of fp_diff
NextDiff ==
    \/ FpDiffRaises

DiffInit == InitDiff /\ IdleLookup /\ IdleFlash /\ IdleScan

SpecDiff == DiffInit /\ [][NextDiff]_vars

\* the loop of make_plots over the (grating, cenwave) buckets
NextPlots ==
    \/ PlotBucketEmpty
    \/ PlotBucketSeries

PlotsInit == InitPlots /\ IdleLookup /\ IdleFlash /\ IdleScan

SpecPlots == PlotsInit /\ [][NextPlots]_vars

ScanInit == InitScan /\ IdleLookup /\ IdleFlash /\ IdleAgg

SpecScan == ScanInit /\ [][NextScan]_vars

---------------------------------------------------------------------------
(* Properties of pull_flashes, under Spec *)

Abs(x) == IF x >= 0 THEN x ELSE -x

\* r is x rounded to five decimals, halves away from zero
IsRounded5(r, x) ==
    /\ r % 10 = 0
    /\ Abs(r - x) <= 5
    /\ Abs(r - x) = 5 => Abs(r) > Abs(x)

Finished == pc \in {"done", "raised"}

\* C1: a lampflash file with N table rows yields exactly N records, in row
\* order, the record of 0-based row k having flash = floor(k/2) + 1.
C1_EveryRowYielded ==
    (IsLampflash /\ Finished) =>
        /\ Len(emitted) = Len(hdu.data)
        /\ \A k \in 1..Len(emitted) : emitted[k].flash = ((k - 1) \div 2) + 1

\* the rows of lamptab equal to the key of table row `line` of the open file
KeyRows(line) ==
    { j \in 1..Len(lamptab.rows) :
        /\ lamptab.rows[j].segment = line.segment
        /\ lamptab.rows[j].opt_elem = hdu.OPT_ELEM
        /\ lamptab.rows[j].cenwave = hdu.CENWAVE
        /\ lamptab.rows[j].fpoffset = hdu.FPPOS[1] - 3 }

\* C2: every record emitted for a lampflash row has x_shift = round(SHIFT_DISP
\* - reference offset, 5), the offset being 0 without an FPOFFSET column and
\* else that of the first row matching (segment, opt_elem, cenwave, FPPOS - 3);
\* y_shift = round(SHIFT_XDISP, 5) uncorrected; found = SPEC_FOUND. An offset
\* of 1.2345 and a shift of 10.0 give 8.7655.
C2_EmittedShifts ==
    IsLampflash =>
        \A k \in 1..Len(emitted) :
            LET line == hdu.data[k]
                rec  == emitted[k]
            IN  /\ rec.found = line.SPEC_FOUND
                /\ IsRounded5(rec.y_shift[1], line.SHIFT_XDISP)
                /\ IF "FPOFFSET" \notin lamptab.names
                   THEN IsRounded5(rec.x_shift[1], line.SHIFT_DISP)
                   ELSE /\ KeyRows(line) # {}
                        /\ \E j \in KeyRows(line) :
                              /\ \A m \in KeyRows(line) : j <= m
                              /\ IsRounded5(rec.x_shift[1],
                                    line.SHIFT_DISP - lamptab.rows[j].FP_PIXEL_SHIFT)
                              /\ (line.SHIFT_DISP = 10000000
                                    /\ lamptab.rows[j].FP_PIXEL_SHIFT = 1234500)
                                 => rec.x_shift = Some(8765500)

C2_Witness ==
    /\ IsLampflash /\ pc = "done" /\ Len(emitted) = 2
    /\ "FPOFFSET" \in lamptab.names
    /\ hdu.data[1].SHIFT_DISP = 10000000
    /\ emitted[1].x_shift = Some(8765500)
    /\ emitted[1].y_shift = Some(500000)
    /\ hdu.data[2].SHIFT_XDISP = -300005
    /\ emitted[2].y_shift = Some(-300010)
    /\ emitted[2].found = FALSE

\* C5: a rawacq file whose companion has LQTAYCOR > 0 yields exactly one
\* record, x_shift = 1023 - LQTAYCOR, y_shift = 1023 - LQTAXCOR, found = False,
\* fppos = -1, flash = 1, whatever FPPOS the primary header holds (500 and 300
\* give 523 and 723).
C5_RawacqTransform ==
    (IsRawacq /\ spt # None /\ pc # "start") =>
        (spt[1].LQTAYCOR > 0 =>
            /\ pc \in {"suspended", "done"}
            /\ Len(emitted) = 1
            /\ emitted[1].x_shift = Some(Px(1023) - spt[1].LQTAYCOR)
            /\ emitted[1].y_shift = Some(Px(1023) - spt[1].LQTAXCOR)
            /\ emitted[1].found = FALSE
            /\ emitted[1].fppos = Some(-1)
            /\ emitted[1].flash = 1
            /\ (spt[1].LQTAYCOR = Px(500) /\ spt[1].LQTAXCOR = Px(300))
                  => /\ emitted[1].x_shift = Some(Px(523))
                     /\ emitted[1].y_shift = Some(Px(723)))

C5_Witness ==
    /\ IsRawacq /\ pc = "done" /\ spt # None
    /\ spt[1].LQTAYCOR = Px(500) /\ spt[1].LQTAXCOR = Px(300)
    /\ hdu.FPPOS = Some(3)
    /\ Len(emitted) = 1
    /\ emitted[1].x_shift = Some(Px(523))
    /\ emitted[1].fppos = Some(-1)

\* C6: a rawacq file whose companion has LQTAYCOR <= 0 yields one record whose
\* x_shift and y_shift are both None, whatever LQTAXCOR is.
C6_RawacqNull ==
    (IsRawacq /\ spt # None /\ pc # "start") =>
        (spt[1].LQTAYCOR <= 0 =>
            /\ pc \in {"suspended", "done"}
            /\ Len(emitted) = 1
            /\ emitted[1].x_shift = None
            /\ emitted[1].y_shift = None)

C6_Witness ==
    /\ IsRawacq /\ pc = "done" /\ spt # None
    /\ spt[1].LQTAYCOR = 0 /\ spt[1].LQTAXCOR = Px(300)
    /\ Len(emitted) = 1
    /\ emitted[1].x_shift = None /\ emitted[1].y_shift = None

\* `yield out_info` hands over the one dictionary each time: what the consumer
\* reads through the k-th object it was given is that dictionary as it is now
YieldedObject(k) == out_info

\* C14: a record is never mutated after creation: every record obtained earlier
\* from the same call still holds the flash, x_shift, y_shift and found it had
\* when it was emitted.
C14_EarlierRecordsKeepValues ==
    IsLampflash =>
        \A k \in 1..Len(emitted) :
            \A f \in {"flash", "x_shift", "y_shift", "found"} :
                YieldedObject(k)[f] = emitted[k][f]

---------------------------------------------------------------------------
(* Properties of fppos_shift, under SpecLookup *)

CallOver == call.pc \in {"returned", "raised"}

\* C3: on a table without an FPOFFSET column fppos_shift returns 0 for every
\* key, also a key no row matches, and never raises.
C3_NoColumnReturnsZero ==
    (CallOver /\ "FPOFFSET" \notin lamptab.names) =>
        /\ call.pc = "returned"
        /\ call.ret = [raised |-> "", value |-> 0]

C3_Witness ==
    /\ call.pc = "returned"
    /\ "FPOFFSET" \notin lamptab.names
    /\ lamptab.rows # <<>>
    /\ \A j \in 1..Len(lamptab.rows) : lamptab.rows[j].opt_elem # call.opt_elem
    /\ call.ret.value = 0

\* C4: on a table with an FPOFFSET column and no row matching the key,
\* fppos_shift returns 0 instead of failing.
C4_MissReturnsZero ==
    ( /\ CallOver
      /\ "FPOFFSET" \in lamptab.names
      /\ \A j \in 1..Len(lamptab.rows) :
            ~ /\ lamptab.rows[j].segment = call.segment
              /\ lamptab.rows[j].opt_elem = call.opt_elem
              /\ lamptab.rows[j].cenwave = call.cenwave
              /\ lamptab.rows[j].fpoffset = call.fpoffset )
    => /\ call.pc = "returned"
       /\ call.ret.value = 0

---------------------------------------------------------------------------
(* Properties of check_internal_drift, under SpecScan *)

DirOf(path) == SubSeq(path, 1, Len(path) - 1)

\* the file passed the three per-file exclusions
Processed(o) ==
    /\ o.hdu.DETECTOR # "NUV"
    /\ o.hdu.data # None
    /\ o.hdu.NUMFLASH > 1

RowsFor(o, segment) ==
    { d \in 1..Len(data) :
        data[d].path = Join(o.root, o.name) /\ data[d].segment = segment }

\* C7: for each processed file and each of FUVA, FUVB there is a summary row
\* if and only if at least two table rows of the file have the segment, and its
\* spread is max - min of SHIFT_XDISP over those rows, hence never negative.
C7_SpreadRows ==
    \A k \in 1..Len(opened) :
        Processed(opened[k]) =>
            \A segment \in {"FUVA", "FUVB"} :
                LET rows == opened[k].hdu.data[1]
                    of   == { j \in 1..Len(rows) : rows[j].segment = segment }
                    recs == RowsFor(opened[k], segment)
                IN  IF Cardinality(of) >= 2
                    THEN /\ Cardinality(recs) = 1
                         /\ \A d \in recs :
                              /\ data[d].diff >= 0
                              /\ \E hi \in of, lo \in of :
                                    /\ \A j \in of :
                                          /\ rows[j].SHIFT_XDISP <= rows[hi].SHIFT_XDISP
                                          /\ rows[j].SHIFT_XDISP >= rows[lo].SHIFT_XDISP
                                    /\ data[d].diff = rows[hi].SHIFT_XDISP
                                                        - rows[lo].SHIFT_XDISP
                    ELSE recs = {}

C7_Witness ==
    \E k \in 1..Len(opened) :
        /\ Processed(opened[k])
        /\ Cardinality({ j \in 1..Len(opened[k].hdu.data[1]) :
                            opened[k].hdu.data[1][j].segment = "FUVA" }) = 3
        /\ Cardinality({ j \in 1..Len(opened[k].hdu.data[1]) :
                            opened[k].hdu.data[1][j].segment = "FUVB" }) = 1
        /\ \E d \in RowsFor(opened[k], "FUVA") : data[d].diff = 800000
        /\ RowsFor(opened[k], "FUVB") = {}

\* C8 as stated: no summary row has a file path containing 'Anomalies',
\* whatever the name of the file.
C8_NoAnomaliesInPath ==
    \A d \in 1..Len(data) : ~ContainsWord("Anomalies", data[d].path)

\* C8: no summary row is for a file in a directory whose path contains
\* 'Anomalies', whatever the name, depth or contents of the file.
C8_NoAnomaliesDirectory ==
    \A d \in 1..Len(data) : ~ContainsWord("Anomalies", DirOf(data[d].path))

C8_Witness ==
    /\ data # <<>>
    /\ \E k \in 1..walk_i :
          /\ Len(WalkRoots[k]) = 7
          /\ ContainsWord("Anomalies", WalkRoots[k])

\* C9 as stated: no file in a directory at or below a directory named
\* 'otfrdata' is opened or contributes a summary row.
C9_NoFileUnderOtfrdata ==
    /\ \A k \in 1..Len(opened) :
          \A c \in 1..Len(opened[k].root) : opened[k].root[c] # <<"otfrdata">>
    /\ \A d \in 1..Len(data) :
          \A c \in 1..(Len(data[d].path) - 1) : data[d].path[c] # <<"otfrdata">>

Denylist ==
    {"Quality", "Fasttrack", "targets", "podfiles", "gzip", "experimental",
     "Anomalies"}

\* C9: no file is opened, and no summary row recorded, from a directory whose
\* path contains a word of the denylist or ends with 'otfrdata'.
C9_ExcludedDirectories ==
    /\ \A k \in 1..Len(opened) :
          /\ \A w \in Denylist : ~ContainsWord(w, opened[k].root)
          /\ ~EndsWith("otfrdata", opened[k].root)
    /\ \A d \in 1..Len(data) :
          /\ \A w \in Denylist : ~ContainsWord(w, DirOf(data[d].path))
          /\ ~EndsWith("otfrdata", DirOf(data[d].path))

C9_Witness ==
    /\ opened # <<>> /\ data # <<>>
    /\ \E k \in 1..walk_i :
          /\ Len(WalkRoots[k]) = 7
          /\ EndsWith("otfrdata", WalkRoots[k])
          /\ \A w \in Denylist : ~ContainsWord(w, WalkRoots[k])

\* C10: a lampflash name met once in a scan is never opened again, whatever
\* happened to the first file of that name.
C10_NameOpenedOnce ==
    \A j, k \in 1..Len(opened) : j < k => opened[j].name # opened[k].name

\* the place in the walk of the file a summary row is for
OpenIndex(path) ==
    CHOOSE n \in 1..Len(opened) : Join(opened[n].root, opened[n].name) = path

\* the lines the rows of `data` make, in order
RowLines ==
    [k \in 1..Len(data) |->
        <<data[k].path, data[k].segment, data[k].diff, data[k].exptime>>]

C15_FailedOpenAbortsScan ==
    [][ /\ \A k \in 1..Len(opened') :
              opened'[k].hdu = CorruptHdu =>
                  /\ scan_pc' = "raised"
                  /\ k = Len(opened')
                  /\ drift_txt' = drift_old'
        /\ scan_pc = "raised" => UNCHANGED vars ]_vars

C15_Witness ==
    /\ scan_pc = "raised"
    /\ Len(opened) >= 2
    /\ opened[Len(opened)].hdu = CorruptHdu
    /\ data # <<>>
    /\ drift_old # <<>>
    /\ drift_txt = drift_old

---------------------------------------------------------------------------
(* Properties of fp_diff, under SpecDiff *)

\* the FUV rows of a dataset and segment, by place in the table
RowsOf(ds, seg) ==
    { k \in 1..Len(shift_table) :
        /\ shift_table[k].detector = "FUV"
        /\ shift_table[k].dataset = ds
        /\ shift_table[k].segment = seg }

FirstRow(ds, seg) ==
    shift_table[CHOOSE k \in RowsOf(ds, seg) : \A j \in RowsOf(ds, seg) : k <= j]

\* the dataset ids with a FUVA and a FUVB row
Paired ==
    { shift_table[k].dataset : k \in 1..Len(shift_table) } \cap
    { ds \in { shift_table[k].dataset : k \in 1..Len(shift_table) } :
        RowsOf(ds, "FUVA") # {} /\ RowsOf(ds, "FUVB") # {} }

\* C12: fp_diff completes without error on any table and records, for each
\* dataset id with a FUVA and a FUVB row, one differential (first FUVA x_shift)
\* - (first FUVB x_shift) under the FUVA cenwave and one report line; the other
\* dataset ids are left out of both (5.0 and 3.0 give 2.0).
C12_DifferentialPairs ==
    diff_pc \in {"returned", "raised"} =>
        /\ diff_pc = "returned"
        /\ \A ds \in Paired :
              \E n \in 1..Len(diff_dict[FirstRow(ds, "FUVA").cenwave]) :
                  diff_dict[FirstRow(ds, "FUVA").cenwave][n] =
                      << FirstRow(ds, "FUVA").mjd,
                         FirstRow(ds, "FUVA").x_shift - FirstRow(ds, "FUVB").x_shift >>
        /\ Cardinality({ <<cw, n>> \in (DOMAIN diff_dict) \X (1..MaxRecs) :
                            n <= Len(diff_dict[cw]) }) = Cardinality(Paired)
        /\ Len(shift_data) = Cardinality(Paired)

---------------------------------------------------------------------------
(* Properties of the per-day series of make_plots, under SpecPlots *)

\* the records of a bucket, by place in the table
BucketRows(b) ==
    { k \in 1..Len(shift_table) :
        shift_table[k].opt_elem = b[1] /\ shift_table[k].cenwave = b[2] }

BucketDays(b) == { shift_table[k].mjd \div 10 : k \in BucketRows(b) }

DayRows(b, day) == { k \in BucketRows(b) : shift_table[k].mjd \div 10 = day }

\* pt is the median of the x_shift of the rows `of`: the mean of the two
\* values with as many rows on either side
IsMedianOf(pt, of) ==
    /\ pt # NaN
    /\ LET c == (Cardinality(of) + 1) \div 2
           X(k) == shift_table[k].x_shift
       IN  \E lo \in of, hi \in of :
              /\ X(lo) <= X(hi)
              /\ 2 * pt[1] = X(lo) + X(hi)
              /\ Cardinality({k \in of : X(k) < X(lo)}) < c
              /\ Cardinality({k \in of : X(k) <= X(lo)}) >= c
              /\ Cardinality({k \in of : X(k) > X(hi)}) < c
              /\ Cardinality({k \in of : X(k) >= X(hi)}) >= c

\* C13 as stated: the series of a bucket with records has exactly one point
\* per distinct integer day on which the bucket has a record, the median of the
\* x_shift of that day, and no point for a day without a record.
C13_OnePointPerRecordedDay ==
    \A b \in DOMAIN series :
        /\ Len(series[b].new_xdata) = Len(series[b].new_ydata)
        /\ \A day \in BucketDays(b) :
              /\ Cardinality({ n \in 1..Len(series[b].new_xdata) :
                                  series[b].new_xdata[n] = day }) = 1
              /\ \A n \in 1..Len(series[b].new_xdata) :
                    series[b].new_xdata[n] = day
                        => IsMedianOf(series[b].new_ydata[n], DayRows(b, day))
        /\ \A n \in 1..Len(series[b].new_xdata) :
              series[b].new_xdata[n] \in BucketDays(b)

\* C13: the series of a bucket with records has exactly one point per integer
\* day from the first to the last day of the bucket, in order; the point of a
\* day with records is the median of the x_shift of that day, the point of a
\* day without a record is nan. A bucket without a record has no series.
C13_OnePointPerDayOfRange ==
    /\ \A b \in plotted : (b \in DOMAIN series) <=> (BucketRows(b) # {})
    /\ \A b \in DOMAIN series :
          /\ b \in plotted
          /\ Len(series[b].new_xdata) = Len(series[b].new_ydata)
          /\ \E first \in BucketDays(b), last \in BucketDays(b) :
                /\ \A day \in BucketDays(b) : first <= day /\ day <= last
                /\ Len(series[b].new_xdata) = last - first + 1
                /\ \A n \in 1..Len(series[b].new_xdata) :
                      /\ series[b].new_xdata[n] = first + n - 1
                      /\ IF DayRows(b, first + n - 1) # {}
                         THEN IsMedianOf(series[b].new_ydata[n],
                                         DayRows(b, first + n - 1))
                         ELSE series[b].new_ydata[n] = NaN

C13_Witness ==
    /\ <<"G130M", 1309>> \in DOMAIN series
    /\ <<"G160M", 1309>> \in plotted
    /\ series[<<"G130M", 1309>>].new_xdata = <<55000, 55001, 55002>>
    /\ series[<<"G130M", 1309>>].new_ydata = <<Some(250), NaN, Some(-300)>>

=============================================================================
